---- MODULE Spec2Model ----
(***************************************************************************)
(* Model of src/main.rs of figma-image-tool: the Download pipeline         *)
(* (create directory, list assets, fan out download futures under          *)
(* future::try_join_all) and the Convert pipeline (format / encoder        *)
(* preconditions, directory scan, tokio::spawn of one task per png entry,  *)
(* Semaphore::new(4), future::join_all).                                   *)
(*                                                                         *)
(* The collaborators that main.rs only calls (fetch_figma_images,          *)
(* download_image, check_cwebp_installed, convert_to_webp/avif, the        *)
(* filesystem) are environment choices: each call returns one of the       *)
(* results its signature allows.  next_entry() is taken not to return an   *)
(* I/O error and file names are taken to be valid UTF-8, so the unwrap()s  *)
(* of lines 91, 95, 98 and 99 do not panic.                                *)
(***************************************************************************)
EXTENDS Integers, Sequences, FiniteSets, TLC

\* ---- bounds -------------------------------------------------------------
MaxImages == 3      \* longest listing returned by the asset lister
MaxPng    == 5      \* most png entries in the input directory
MaxLen    == 3      \* longest name handed to the sanitizer on its own

\* ---- program constant ---------------------------------------------------
Permits == 4        \* Semaphore::new(4)

VARIABLES
  cli,             \* Cli::parse(): [command, format, download_dir, input_dir, output_dir]
  cwebpInstalled,  \* environment: is the cwebp tool on this machine
  pc,              \* position of main
  out,             \* lines main itself has printed, in order
  dlDirCreated,    \* create_dir_all(&download_dir) succeeded
  listing,         \* result kind of fetch_figma_images: NotCalled/Err/None/Some
  images,          \* the records inside Ok(Some(images))
  downloads,       \* the Vec of download futures handed to try_join_all
  dlState,         \* per download future: Pending/Running/Succeeded/Failed
  cwebpChecked,    \* check_cwebp_installed() has been called
  outDirCreated,   \* create_dir_all(&output_dir) succeeded
  readDirCalled,   \* read_dir(&input_dir) has been called
  entries,         \* the directory stream returned by read_dir
  scanPos,         \* number of entries next_entry() has yielded
  conversion_tasks,\* the Vec of spawned conversion tasks
  convState,       \* per conversion task: Pending/Acquired/Running/Succeeded/Failed/Panicked
  permits,         \* permits available in the semaphore
  held,            \* conversion tasks that currently own a SemaphorePermit
  sanPc,           \* the sanitizer on its own: off / in / once / twice
  sanName,         \* the name handed to the sanitizer
  sanOnce,         \* the sanitized name
  sanTwice         \* the sanitized name, sanitized again

vars == <<cli, cwebpInstalled, pc, out, dlDirCreated, listing, downloads,
          dlState, cwebpChecked, outDirCreated, readDirCalled, entries,
          scanPos, conversion_tasks, convState, permits, held, images,
          sanPc, sanName, sanOnce, sanTwice>>

dlVars   == <<dlDirCreated, listing, images, downloads, dlState>>
sanVars  == <<sanPc, sanName, sanOnce, sanTwice>>
convVars == <<cwebpChecked, outDirCreated, readDirCalled, entries, scanPos,
              conversion_tasks, convState, permits, held>>

\* ---- inputs -------------------------------------------------------------
\* --format values the user may type: the two supported ones and another
Formats == {"webp", "avif", "bmp"}

\* image_url is a JSON value: a string or something else (null)
JsonNull   == [isStr |-> FALSE, str |-> 0]
JsonStr(k) == [isStr |-> TRUE, str |-> k]

\* the characters of line 37, and some characters that are not among them
\* (a letter, the replacement character itself, a non-ASCII letter)
DisallowedChars == {"/", "\\", ":", "*", "?", "\"", "<", ">", "|"}
OtherChars == {"a", "_", "é"}
Chars == DisallowedChars \cup OtherChars

\* every name of at most MaxLen characters
Names == UNION { [1..n -> Chars] : n \in 0..MaxLen }

\* display names the asset lister reports
ListedNames == { <<"A", "/", "B">>, <<"C">>, <<"a", ":", "*", "a">> }

\* listings the asset lister can return inside Ok(Some(..))
Listings ==
  UNION { { [k \in 1..n |-> [node_id |-> k,
                             image_url |-> IF k \in S THEN JsonStr(k) ELSE JsonNull,
                             name |-> nm[k]]]
            : S \in SUBSET (1..n), nm \in [1..n -> ListedNames] } : n \in 0..MaxImages }

\* directories the user may name; Convert may read and write the same one
CliChoices ==
  { [command |-> "Download", format |-> "-", download_dir |-> "dl",
     input_dir |-> "-", output_dir |-> "-"] }
  \cup { [command |-> "Convert", format |-> f, download_dir |-> "-",
          input_dir |-> "in", output_dir |-> o] : f \in Formats, o \in {"in", "out"} }

\* a directory entry: base name, and its extension if it has one
Entry(s, h, e) == [stem |-> s, hasExt |-> h, ext |-> e]

\* entries that are not lower-case png files
OddEntries == << Entry(101, TRUE, "txt"), Entry(102, TRUE, "PNG"), Entry(103, FALSE, "") >>

\* contents of the input directory: some odd entries, then n png files
DirListings ==
  { SubSeq(OddEntries, 1, m) \o [k \in 1..n |-> Entry(k, TRUE, "png")]
    : m \in {0, Len(OddEntries)}, n \in 0..MaxPng }

\* ---- pure helpers -------------------------------------------------------
\* lines 32-56: filter_map over the listing, one future per record with a URL
\* a sanitizer that forgets the last character of the list
RECURSIVE SanitizeNoPipe(_)
SanitizeNoPipe(name) ==
  IF name = <<>> THEN <<>>
  ELSE (IF Head(name) \in (DisallowedChars \ {"|"}) THEN <<"_">> ELSE <<Head(name)>>)
       \o SanitizeNoPipe(Tail(name))

\* a sanitizer that replaces the first match only
SanitizeFirstOnly(name) ==
  IF \E j \in 1..Len(name) : name[j] \in DisallowedChars
  THEN LET f == CHOOSE j \in 1..Len(name) :
                  /\ name[j] \in DisallowedChars
                  /\ \A h \in 1..(j - 1) : name[h] \notin DisallowedChars
       IN  [name EXCEPT ![f] = "_"]
  ELSE name

\* line 37: name.replace([..9 chars..], "_"), every match gives way to "_"
RECURSIVE Sanitize(_)
Sanitize(name) ==
  IF name = <<>> THEN <<>>
  ELSE (IF Head(name) \in DisallowedChars THEN <<"_">> ELSE <<Head(name)>>)
       \o Sanitize(Tail(name))

\* line 38: download_dir.join(format!("{}.png", sanitized_name))
PngPath(dir, sanitized_name) ==
  [dir |-> dir, file |-> sanitized_name \o <<".", "p", "n", "g">>]

\* a map without the filter: a future for every record
BuildDownloadsNoFilter(imgs) ==
  [i \in 1..Len(imgs) |->
     [url |-> imgs[i].image_url.str,
      png_path |-> PngPath(cli.download_dir, Sanitize(imgs[i].name)),
      node_id |-> imgs[i].node_id]]

\* lines 32-56: filter_map over the listing, one future per record with a URL
BuildDownloads(imgs) ==
  LET keep == SelectSeq(imgs, LAMBDA r : r.image_url.isStr)
  IN  [i \in 1..Len(keep) |->
         [url |-> keep[i].image_url.str,
          png_path |-> PngPath(cli.download_dir, Sanitize(keep[i].name)),
          node_id |-> keep[i].node_id]]

\* a join that waits for every future and loses the errors
TryJoinAllLosesErr(st) ==
  IF \A i \in 1..Len(st) : st[i] \in {"Succeeded", "Failed"} THEN "Ok" ELSE "Pending"

\* future::try_join_all: Err as soon as one future is Err, Ok when all are Ok
TryJoinAll(st) ==
  IF \E i \in 1..Len(st) : st[i] = "Failed" THEN "Err"
  ELSE IF \A i \in 1..Len(st) : st[i] = "Succeeded" THEN "Ok"
  ELSE "Pending"

\* line 71
SupportedFormatMut(f) == TRUE
SupportedFormat(f) == ~(f /= "webp" /\ f /= "avif")

\* line 76: format == "webp" && !check_cwebp_installed()
NeedsCwebpMut(f) == f = "avif"
NeedsCwebp(f) == f = "webp"

\* an extension test that ignores case
IsPngAnyCase(e) == IF e.hasExt THEN e.ext \in {"png", "PNG"} ELSE FALSE

\* line 94: path.extension().map_or(false, |ext| ext == "png")
IsPng(e) == IF e.hasExt THEN e.ext = "png" ELSE FALSE

\* an output path that keeps the extension of the source
OutputPathKeepsExt(e, f) == [dir |-> cli.output_dir, stem |-> e.stem, hasExt |-> e.hasExt, ext |-> e.ext]

\* lines 95-99: output_dir.join("{stem}.{format}")
OutputPath(e, f) == [dir |-> cli.output_dir, stem |-> e.stem, hasExt |-> TRUE, ext |-> f]
InputPath(e) == [dir |-> cli.input_dir, stem |-> e.stem, hasExt |-> e.hasExt, ext |-> e.ext]

\* line 105: `let _ = ...` binds nothing, the permit is dropped (released)
\* when the statement ends
ReleasePermitMut(p) == p
ReleasePermit(p) == p + 1

\* a JoinHandle yields Err(JoinError) only for a task that panicked
JoinResult(s) == IF s = "Panicked" THEN "JoinError" ELSE "Ok"

ConvTerminal == {"Succeeded", "Failed", "Panicked"}

\* future::join_all: ready when every JoinHandle is ready
JoinAllReady(st) == \A i \in 1..Len(st) : st[i] \in ConvTerminal

\* ---- initial state ------------------------------------------------------
Init ==
  /\ cli \in CliChoices
  /\ cwebpInstalled \in BOOLEAN
  /\ pc = "start"
  /\ out = <<>>
  /\ dlDirCreated = FALSE
  /\ listing = "NotCalled"
  /\ downloads = <<>>
  /\ dlState = <<>>
  /\ cwebpChecked = FALSE
  /\ outDirCreated = FALSE
  /\ readDirCalled = FALSE
  /\ entries = <<>>
  /\ scanPos = 0
  /\ conversion_tasks = <<>>
  /\ convState = <<>>
  /\ permits = Permits
  /\ held = {}
  /\ images = <<>>
  /\ sanPc = "off"
  /\ sanName = <<>>
  /\ sanOnce = <<>>
  /\ sanTwice = <<>>

\* ---- Download pipeline --------------------------------------------------
\* lines 25-28 without the return of line 27
DlCreateDirNoReturn ==
  /\ pc = "start" /\ cli.command = "Download"
  /\ \E ok \in BOOLEAN :
       /\ dlDirCreated' = ok
       /\ pc' = "fetch"
       /\ out' = IF ok THEN out ELSE Append(out, "Failed to create download directory")
  /\ UNCHANGED <<sanVars, cli, images, cwebpInstalled, listing, downloads, dlState, convVars>>

\* lines 25-28
DlCreateDir ==
  /\ pc = "start" /\ cli.command = "Download"
  /\ \E ok \in BOOLEAN :
       IF ok
       THEN /\ dlDirCreated' = TRUE
            /\ pc' = "fetch"
            /\ out' = out
       ELSE /\ dlDirCreated' = FALSE
            /\ pc' = "done"
            /\ out' = Append(out, "Failed to create download directory")
  /\ UNCHANGED <<sanVars, cli, images, cwebpInstalled, listing, downloads, dlState, convVars>>

\* lines 30-56: Ok(Some(images)), the futures are built but not yet polled
DlListingSome ==
  /\ pc = "fetch"
  /\ \E imgs \in Listings :
       /\ images' = imgs
       /\ downloads' = BuildDownloads(imgs)
       /\ dlState' = [i \in 1..Len(BuildDownloads(imgs)) |-> "Pending"]
  /\ listing' = "Some"
  /\ pc' = "dl_join"
  /\ UNCHANGED <<sanVars, cli, cwebpInstalled, out, dlDirCreated, convVars>>

\* line 62
DlListingNone ==
  /\ pc = "fetch"
  /\ listing' = "None"
  /\ out' = Append(out, "No images found.")
  /\ pc' = "done"
  /\ UNCHANGED <<sanVars, cli, images, cwebpInstalled, dlDirCreated, downloads, dlState, convVars>>

\* line 63
DlListingErrMut ==
  /\ pc = "fetch"
  /\ listing' = "Err"
  /\ pc' = "done"
  /\ UNCHANGED <<sanVars, cli, cwebpInstalled, images, out, dlDirCreated, downloads, dlState, convVars>>
DlListingErr ==
  /\ pc = "fetch"
  /\ listing' = "Err"
  /\ out' = Append(out, "Failed to request figma API")
  /\ pc' = "done"
  /\ UNCHANGED <<sanVars, cli, images, cwebpInstalled, dlDirCreated, downloads, dlState, convVars>>

\* a first poll that renames the target when another future has the same one
DlStartRenames(i) ==
  /\ pc = "dl_join" /\ TryJoinAll(dlState) = "Pending"
  /\ i \in 1..Len(dlState) /\ dlState[i] = "Pending"
  /\ \A j \in 1..(i - 1) : dlState[j] /= "Pending"
  /\ dlState' = [dlState EXCEPT ![i] = "Running"]
  /\ downloads' =
       IF \E j \in 1..Len(downloads) : j /= i /\ downloads[j].png_path = downloads[i].png_path
       THEN [downloads EXCEPT ![i].png_path.file = <<"_">> \o @]
       ELSE downloads
  /\ UNCHANGED <<sanVars, cli, cwebpInstalled, images, pc, out, dlDirCreated, listing, convVars>>

\* lines 42-43: try_join_all polls its futures in order; the first poll of
\* future i calls download_image, which is then in flight
DlStart(i) ==
  /\ pc = "dl_join" /\ TryJoinAll(dlState) = "Pending"
  /\ i \in 1..Len(dlState) /\ dlState[i] = "Pending"
  /\ \A j \in 1..(i - 1) : dlState[j] /= "Pending"
  /\ dlState' = [dlState EXCEPT ![i] = "Running"]
  /\ UNCHANGED <<sanVars, cli, cwebpInstalled, images, pc, out, dlDirCreated, listing, downloads, convVars>>

\* a download that is put back in line when it fails
DlFinishRetries(i) ==
  /\ pc = "dl_join" /\ TryJoinAll(dlState) = "Pending"
  /\ i \in 1..Len(dlState) /\ dlState[i] = "Running"
  /\ \E r \in {"Succeeded", "Pending"} : dlState' = [dlState EXCEPT ![i] = r]
  /\ UNCHANGED <<sanVars, cli, cwebpInstalled, images, pc, out, dlDirCreated, listing, downloads, convVars>>

\* lines 43-52: download_image returns; the future resolves to Ok or Err.
\* Futures are polled only while try_join_all is still pending.
DlFinish(i) ==
  /\ pc = "dl_join" /\ TryJoinAll(dlState) = "Pending"
  /\ i \in 1..Len(dlState) /\ dlState[i] = "Running"
  /\ \E r \in {"Succeeded", "Failed"} : dlState' = [dlState EXCEPT ![i] = r]
  /\ UNCHANGED <<sanVars, cli, cwebpInstalled, images, pc, out, dlDirCreated, listing, downloads, convVars>>

\* lines 58-60: try_join_all has resolved; the futures it still owns are
\* dropped where they stand
DlJoin ==
  /\ pc = "dl_join" /\ TryJoinAll(dlState) /= "Pending"
  /\ out' = IF TryJoinAll(dlState) = "Err"
            THEN Append(out, "Some downloads failed")
            ELSE out
  /\ pc' = "done"
  /\ UNCHANGED <<sanVars, cli, cwebpInstalled, dlVars, convVars>>

\* ---- Convert pipeline ---------------------------------------------------
\* lines 71-74
ConvCheckFormat ==
  /\ pc = "start" /\ cli.command = "Convert"
  /\ IF SupportedFormat(cli.format)
     THEN pc' = "cwebp" /\ out' = out
     ELSE pc' = "done" /\ out' = Append(out, "Unsupported format")
  /\ UNCHANGED <<sanVars, cli, cwebpInstalled, dlVars, convVars>>

\* lines 76-79
ConvCheckCwebp ==
  /\ pc = "cwebp"
  /\ IF NeedsCwebp(cli.format)
     THEN /\ cwebpChecked' = TRUE
          /\ IF cwebpInstalled
             THEN pc' = "mkdir" /\ out' = out
             ELSE pc' = "done" /\ out' = Append(out, "installation guide")
     ELSE /\ cwebpChecked' = cwebpChecked
          /\ pc' = "mkdir" /\ out' = out
  /\ UNCHANGED <<sanVars, cli, cwebpInstalled, dlVars, outDirCreated, readDirCalled,
                 entries, scanPos, conversion_tasks, convState, permits, held>>

\* lines 81-84
ConvCreateOutDir ==
  /\ pc = "mkdir"
  /\ \E ok \in BOOLEAN :
       IF ok
       THEN /\ outDirCreated' = TRUE
            /\ pc' = "read_dir"
            /\ out' = out
       ELSE /\ outDirCreated' = FALSE
            /\ pc' = "done"
            /\ out' = Append(out, "Failed to create output directory")
  /\ UNCHANGED <<sanVars, cli, cwebpInstalled, dlVars, cwebpChecked, readDirCalled,
                 entries, scanPos, conversion_tasks, convState, permits, held>>

\* lines 86-89, 129
ConvReadDir ==
  /\ pc = "read_dir"
  /\ readDirCalled' = TRUE
  /\ \/ /\ \E d \in DirListings : entries' = d
        /\ pc' = "scan"
        /\ out' = out
     \/ /\ entries' = entries
        /\ pc' = "done"
        /\ out' = Append(out, "Failed to read input directory")
  /\ UNCHANGED <<sanVars, cli, cwebpInstalled, dlVars, cwebpChecked, outDirCreated,
                 scanPos, conversion_tasks, convState, permits, held>>

\* lines 91-119: one next_entry(); a png entry spawns its task
ConvScanNext ==
  /\ pc = "scan" /\ scanPos < Len(entries)
  /\ scanPos' = scanPos + 1
  /\ LET e == entries[scanPos + 1] IN
       IF IsPng(e)
       THEN /\ conversion_tasks' = Append(conversion_tasks,
                 [input_path |-> InputPath(e),
                  output_path |-> OutputPath(e, cli.format),
                  format |-> cli.format])
            /\ convState' = Append(convState, "Pending")
       ELSE UNCHANGED <<conversion_tasks, convState>>
  /\ UNCHANGED <<sanVars, cli, cwebpInstalled, pc, out, dlVars, cwebpChecked, outDirCreated,
                 readDirCalled, entries, permits, held>>

\* line 91: next_entry() yields None, main goes on to join_all
ConvScanEnd ==
  /\ pc = "scan" /\ scanPos = Len(entries)
  /\ pc' = "join"
  /\ UNCHANGED <<sanVars, cli, cwebpInstalled, out, dlVars, convVars>>

\* line 105: semaphore.acquire().await completes
ConvAcquire(i) ==
  /\ i \in 1..Len(convState) /\ convState[i] = "Pending"
  /\ permits > 0
  /\ permits' = permits - 1
  /\ held' = held \cup {i}
  /\ convState' = [convState EXCEPT ![i] = "Acquired"]
  /\ UNCHANGED <<sanVars, cli, cwebpInstalled, pc, out, dlVars, cwebpChecked, outDirCreated,
                 readDirCalled, entries, scanPos, conversion_tasks>>

\* lines 105-111: the statement `let _ = ...;` ends, which drops the permit,
\* and the encoder chosen by the format is invoked
ConvInvoke(i) ==
  /\ i \in 1..Len(convState) /\ convState[i] = "Acquired"
  /\ permits' = ReleasePermit(permits)
  /\ held' = held \ {i}
  /\ convState' = [convState EXCEPT ![i] =
        IF conversion_tasks[i].format = "webp" \/ conversion_tasks[i].format = "avif"
        THEN "Running" ELSE "Panicked"]
  /\ UNCHANGED <<sanVars, cli, cwebpInstalled, pc, out, dlVars, cwebpChecked, outDirCreated,
                 readDirCalled, entries, scanPos, conversion_tasks>>

\* lines 107-116: the encoder returns Ok or Err; the task prints and ends
ConvFinish(i) ==
  /\ i \in 1..Len(convState) /\ convState[i] = "Running"
  /\ \E r \in {"Succeeded", "Failed"} : convState' = [convState EXCEPT ![i] = r]
  /\ UNCHANGED <<sanVars, cli, cwebpInstalled, pc, out, dlVars, cwebpChecked, outDirCreated,
                 readDirCalled, entries, scanPos, conversion_tasks, permits, held>>

\* lines 121-127: join_all is ready; collect the JoinHandle results
ConvJoin ==
  /\ pc = "join" /\ JoinAllReady(convState)
  /\ out' = IF \E i \in 1..Len(convState) : JoinResult(convState[i]) = "JoinError"
            THEN Append(out, "Some conversions failed")
            ELSE out
  /\ pc' = "done"
  /\ UNCHANGED <<sanVars, cli, cwebpInstalled, dlVars, convVars>>

\* ---- specification ------------------------------------------------------
DlStartAny    == \E i \in 1..MaxImages : DlStart(i)
DlFinishAny   == \E i \in 1..MaxImages : DlFinish(i)
ConvAcquireAny == \E i \in 1..MaxPng : ConvAcquire(i)
ConvInvokeAny  == \E i \in 1..MaxPng : ConvInvoke(i)
ConvFinishAny  == \E i \in 1..MaxPng : ConvFinish(i)

Next ==
  \/ DlCreateDir
  \/ DlListingSome
  \/ DlListingNone
  \/ DlListingErr
  \/ DlStartAny
  \/ DlFinishAny
  \/ DlJoin
  \/ ConvCheckFormat
  \/ ConvCheckCwebp
  \/ ConvCreateOutDir
  \/ ConvReadDir
  \/ ConvScanNext
  \/ ConvScanEnd
  \/ ConvAcquireAny
  \/ ConvInvokeAny
  \/ ConvFinishAny
  \/ ConvJoin

Spec == Init /\ [][Next]_vars

\* ---- the sanitizer on its own -------------------------------------------
SanInit ==
  /\ cli = [command |-> "Download", format |-> "-", download_dir |-> "dl",
            input_dir |-> "-", output_dir |-> "-"]
  /\ cwebpInstalled = FALSE
  /\ pc = "start" /\ out = <<>>
  /\ dlDirCreated = FALSE /\ listing = "NotCalled" /\ images = <<>>
  /\ downloads = <<>> /\ dlState = <<>>
  /\ cwebpChecked = FALSE /\ outDirCreated = FALSE /\ readDirCalled = FALSE
  /\ entries = <<>> /\ scanPos = 0
  /\ conversion_tasks = <<>> /\ convState = <<>>
  /\ permits = Permits /\ held = {}
  /\ sanPc = "in"
  /\ sanName \in Names
  /\ sanOnce = <<>>
  /\ sanTwice = <<>>

\* line 37 applied to a name
SanApply ==
  /\ sanPc = "in"
  /\ sanOnce' = Sanitize(sanName)
  /\ sanPc' = "once"
  /\ UNCHANGED <<sanName, sanTwice, cli, cwebpInstalled, pc, out, dlVars, convVars>>

\* line 37 applied to its own result
SanApplyAgain ==
  /\ sanPc = "once"
  /\ sanTwice' = Sanitize(sanOnce)
  /\ sanPc' = "twice"
  /\ UNCHANGED <<sanName, sanOnce, cli, cwebpInstalled, pc, out, dlVars, convVars>>

SanNext == SanApply \/ SanApplyAgain

SanSpec == SanInit /\ [][SanNext]_vars

\* The tokio scheduler keeps polling main and every spawned task that can
\* make progress, and every encoder invocation returns.
FairSpec ==
  /\ Init /\ [][Next]_vars
  /\ WF_vars(ConvCheckFormat \/ ConvCheckCwebp \/ ConvCreateOutDir \/ ConvReadDir
             \/ ConvScanNext \/ ConvScanEnd \/ ConvJoin)
  /\ \A i \in 1..MaxPng :
       WF_vars(ConvAcquire(i) \/ ConvInvoke(i) \/ ConvFinish(i))

\* ---- claims -------------------------------------------------------------
Range(s) == { s[i] : i \in 1..Len(s) }
RunningConv == { i \in 1..Len(convState) : convState[i] = "Running" }
DlUnfinished == { i \in 1..Len(dlState) : dlState[i] \in {"Pending", "Running"} }
ConvUnfinished == { i \in 1..Len(convState) : convState[i] \in {"Pending", "Acquired", "Running"} }

\* C1: at most 4 conversion tasks are inside their encoder invocation at
\* the same time.
C1_AtMostFourRunning == Cardinality(RunningConv) <= Permits

\* C2: every launched download task runs to Succeeded or Failed: when
\* try_join_all resolves, no download future is left Pending or Running.
C2_EveryDownloadCompletes ==
  (pc \in {"dl_join", "done"} /\ listing = "Some" /\ TryJoinAll(dlState) /= "Pending")
    => DlUnfinished = {}

\* C3: when the Convert run has ended and some conversion task Failed, the
\* run has reported "Some conversions failed".
C3_FailedConversionReported ==
  (pc = "done" /\ \E i \in 1..Len(convState) : convState[i] = "Failed")
    => "Some conversions failed" \in Range(out)

\* C4: once main is past the join of a batch (the aggregate result is out),
\* no task of the batch is still Pending or Running, in either pipeline.
C4_AggregateAfterAllTasks ==
  pc = "done" => (DlUnfinished = {} /\ ConvUnfinished = {})

\* C5: every conversion task that is invoking its encoder holds a permit.
C5_RunningHoldsSlot == \A i \in RunningConv : i \in held

\* C6: a listing that succeeded with no usable record ends with exactly the
\* "No images found." report.
C6_NoImagesReported ==
  (pc = "done" /\ listing \in {"None", "Some"} /\ downloads = <<>>)
    => out = <<"No images found.">>

\* C7: when the listing call failed, no download future exists, none was
\* started, and the run has ended with only the listing failure reported.
C7_ListingFailure ==
  listing = "Err" =>
    /\ downloads = <<>> /\ dlState = <<>>
    /\ pc = "done"
    /\ out = <<"Failed to request figma API">>
C7_Witness == listing = "Err" /\ dlDirCreated /\ pc = "done"

\* C8: Convert with a format other than webp / avif ends at once with the
\* unsupported-format error: no encoder check, no output directory, no
\* read_dir, no conversion task.
C8_UnsupportedFormat ==
  (cli.command = "Convert" /\ cli.format \notin {"webp", "avif"}) =>
    /\ ~cwebpChecked /\ ~outDirCreated /\ ~readDirCalled
    /\ conversion_tasks = <<>>
    /\ pc \in {"start", "done"}
    /\ pc = "done" => out = <<"Unsupported format">>
C8_Witness == cli.command = "Convert" /\ cli.format = "bmp" /\ pc = "done"

\* C9: Convert to webp on a machine without cwebp ends at the encoder check
\* with the installation guide: no output directory, no read_dir, no task.
C9_EncoderAbsent ==
  (cli.command = "Convert" /\ cli.format = "webp" /\ ~cwebpInstalled) =>
    /\ ~outDirCreated /\ ~readDirCalled
    /\ conversion_tasks = <<>>
    /\ pc \in {"start", "cwebp", "done"}
    /\ pc = "done" => (cwebpChecked /\ out = <<"installation guide">>)
C9_Witness ==
  cli.command = "Convert" /\ cli.format = "webp" /\ ~cwebpInstalled
    /\ cwebpChecked /\ pc = "done"

\* C10: under fair scheduling the Convert run settles with every spawned
\* conversion task Succeeded or Failed, whatever its siblings did and
\* however many tasks there are (more than 4 included).
C10_EveryConversionFinishes ==
  <>[](\A i \in 1..Len(convState) : convState[i] \in {"Succeeded", "Failed"})
C10_Witness ==
  /\ Len(convState) > Permits
  /\ ConvUnfinished = {}
  /\ \E i \in 1..Len(convState) : convState[i] = "Failed"
  /\ convState[Len(convState)] = "Succeeded"

\* the nine characters a file name must not keep
C12_Forbidden == {"/", "\\", ":", "*", "?", "\"", "<", ">", "|"}
CharwiseSafe(name) ==
  [j \in 1..Len(name) |-> IF name[j] \in C12_Forbidden THEN "_" ELSE name[j]]
UrlRecords == { k \in 1..Len(images) : images[k].image_url.isStr }
RankOf(k) == Cardinality({ j \in UrlRecords : j <= k })

\* C11: the download futures are exactly the listed records that have a
\* URL, in listing order, each with the record's URL and the target path
\* download_dir/<sanitized name>.png; a record without a URL has no future.
C11_OneTaskPerUrlRecord ==
  listing = "Some" =>
    /\ Len(downloads) = Cardinality(UrlRecords)
    /\ Len(dlState) = Cardinality(UrlRecords)
    /\ \A k \in UrlRecords :
         /\ downloads[RankOf(k)].url = images[k].image_url.str
         /\ downloads[RankOf(k)].png_path.dir = cli.download_dir
         /\ downloads[RankOf(k)].png_path.file
              = CharwiseSafe(images[k].name) \o <<".", "p", "n", "g">>
C11_Witness ==
  /\ listing = "Some" /\ pc = "dl_join"
  /\ \E k \in 1..Len(images) : ~images[k].image_url.isStr
  /\ \E i \in 1..Len(downloads) :
       downloads[i].png_path.file = <<"A", "_", "B", ".", "p", "n", "g">>

\* C12: the sanitized name has the length of the name, holds none of the
\* nine characters, has "_" wherever the name had one of them and the
\* name's own character everywhere else.
C12_SanitizerCharwise ==
  sanPc \in {"once", "twice"} =>
    /\ Len(sanOnce) = Len(sanName)
    /\ \A j \in 1..Len(sanOnce) :
         /\ sanOnce[j] \notin C12_Forbidden
         /\ sanName[j] \in C12_Forbidden => sanOnce[j] = "_"
         /\ sanName[j] \notin C12_Forbidden => sanOnce[j] = sanName[j]
C12_Witness ==
  /\ sanPc = "once"
  /\ sanName = <<"é", "|", "/">>
  /\ sanOnce = <<"é", "_", "_">>

\* C13: sanitizing a sanitized name gives the sanitized name again.
C13_SanitizerIdempotent == sanPc = "twice" => sanTwice = sanOnce
C13_Witness ==
  /\ sanPc = "twice"
  /\ sanName = <<"?", "a", "?">>
  /\ sanTwice = <<"_", "a", "_">>

PngEntries == { k \in 1..scanPos : entries[k].hasExt /\ entries[k].ext = "png" }
PngRankOf(k) == Cardinality({ j \in PngEntries : j <= k })

\* C14: the conversion tasks are exactly the scanned entries whose
\* extension is "png" (not "PNG", not "txt", not a missing extension), in
\* scan order, each writing output_dir/<same base name>.<format>.
C14_OneTaskPerPngEntry ==
  /\ Len(conversion_tasks) = Cardinality(PngEntries)
  /\ Len(convState) = Cardinality(PngEntries)
  /\ \A k \in PngEntries :
       LET t == conversion_tasks[PngRankOf(k)] IN
         /\ t.input_path.dir = cli.input_dir
         /\ t.input_path.stem = entries[k].stem
         /\ t.input_path.ext = "png"
         /\ t.output_path.dir = cli.output_dir
         /\ t.output_path.stem = entries[k].stem
         /\ t.output_path.hasExt /\ t.output_path.ext = cli.format
C14_Witness ==
  /\ pc = "join" /\ cli.format = "avif"
  /\ Len(entries) = Len(OddEntries) + 2
  /\ Len(conversion_tasks) = 2

\* C15: a Download run whose listing succeeded ends with "Some downloads
\* failed" printed once, and nothing else, if a download task Failed, and
\* with nothing printed by main if none did.
C15_DownloadAggregate ==
  (cli.command = "Download" /\ listing = "Some" /\ pc = "done") =>
    IF \E i \in 1..Len(dlState) : dlState[i] = "Failed"
    THEN out = <<"Some downloads failed">>
    ELSE out = <<>>
C15_Witness ==
  /\ listing = "Some" /\ pc = "done"
  /\ \E i \in 1..Len(dlState) : dlState[i] = "Failed"
  /\ \E i \in 1..Len(dlState) : dlState[i] = "Succeeded"

\* C16: after a failed create_dir_all of the download directory the lister
\* is not called and no download exists; after a failed create_dir_all of
\* the output directory or a failed read_dir no conversion task exists; the
\* run is over in each case.
C16_DirectoryFailureAborts ==
  /\ "Failed to create download directory" \in Range(out) =>
       (listing = "NotCalled" /\ downloads = <<>> /\ dlState = <<>> /\ pc = "done")
  /\ "Failed to create output directory" \in Range(out) =>
       (~readDirCalled /\ conversion_tasks = <<>> /\ convState = <<>> /\ pc = "done")
  /\ "Failed to read input directory" \in Range(out) =>
       (conversion_tasks = <<>> /\ convState = <<>> /\ pc = "done")
C16_Witness ==
  out = <<"Failed to create download directory">> /\ pc = "done" /\ ~dlDirCreated

\* C17: the free permits stay between 0 and 4 and are 4 less the permits
\* held; once main is at or past the join and every task has ended, all 4
\* are free; under fair scheduling no task is left waiting for a permit.
C17_SlotsReleased ==
  /\ [](permits \in 0..4 /\ permits + Cardinality(held) = 4)
  /\ []((pc \in {"join", "done"} /\ ConvUnfinished = {}) => (permits = 4 /\ held = {}))
  /\ <>[](\A i \in 1..Len(convState) : convState[i] /= "Pending")
C17_Witness ==
  /\ pc = "done" /\ Len(convState) > 4 /\ permits = 4
  /\ convState[1] = "Failed"
  /\ \A i \in 2..Len(convState) : convState[i] = "Succeeded"

\* the task states of the specification: a conversion task that has its
\* permit but has not yet invoked the encoder is still Pending
TaskPhase(st) == IF st = "Acquired" THEN "Pending" ELSE st
TaskStepOK(a, b) ==
  \/ b = a
  \/ a = "Pending" /\ b = "Running"
  \/ a = "Running" /\ b \in {"Succeeded", "Failed"}

\* C18: in both pipelines a task only ever steps Pending -> Running ->
\* Succeeded or Failed: a new task is Pending, no task goes back, a
\* Succeeded or Failed task stays as it is, and no task disappears.
C18_TaskStateMachine ==
  [][ /\ Len(dlState') >= Len(dlState)
      /\ \A i \in 1..Len(dlState') :
           IF i <= Len(dlState) THEN TaskStepOK(dlState[i], dlState'[i])
           ELSE dlState'[i] = "Pending"
      /\ Len(convState') >= Len(convState)
      /\ \A i \in 1..Len(convState') :
           IF i <= Len(convState)
           THEN TaskStepOK(TaskPhase(convState[i]), TaskPhase(convState'[i]))
           ELSE convState'[i] = "Pending" ]_vars
C18_Witness ==
  /\ pc = "dl_join" /\ Len(dlState) = 3
  /\ dlState[1] = "Succeeded" /\ dlState[2] = "Failed" /\ dlState[3] = "Running"

\* C19: a task's target path never changes once the task exists, every
\* task has its path from the moment it exists, and when a download has
\* been polled every future of the batch already has its sanitized path.
C19_TargetPathFixed ==
  /\ [](/\ Len(downloads) = Len(dlState)
        /\ Len(conversion_tasks) = Len(convState)
        /\ (\E i \in 1..Len(dlState) : dlState[i] /= "Pending") =>
             /\ Len(downloads) = Cardinality(UrlRecords)
             /\ \A k \in UrlRecords :
                  downloads[RankOf(k)].png_path.file
                    = CharwiseSafe(images[k].name) \o <<".", "p", "n", "g">>)
  /\ [][ /\ \A i \in 1..Len(downloads) :
             i <= Len(downloads') /\ downloads'[i].png_path = downloads[i].png_path
         /\ \A i \in 1..Len(conversion_tasks) :
             /\ i <= Len(conversion_tasks')
             /\ conversion_tasks'[i].output_path = conversion_tasks[i].output_path
             /\ conversion_tasks'[i].input_path = conversion_tasks[i].input_path ]_vars
C19_Witness ==
  /\ pc = "dl_join" /\ Len(downloads) = 2
  /\ downloads[1].png_path = downloads[2].png_path
  /\ dlState[1] = "Succeeded" /\ dlState[2] = "Running"

\* C20: no conversion task writes to the path of a source png of the scan,
\* also when Convert reads and writes the same directory, and two tasks
\* never write to the same path.
C20_OutputsApartFromSources ==
  \A i \in 1..Len(conversion_tasks) : \A j \in 1..Len(conversion_tasks) :
    /\ conversion_tasks[i].output_path /= conversion_tasks[j].input_path
    /\ i /= j => conversion_tasks[i].output_path /= conversion_tasks[j].output_path
C20_Witness ==
  /\ cli.command = "Convert" /\ cli.output_dir = cli.input_dir
  /\ pc = "done" /\ Len(conversion_tasks) >= 2
  /\ \A i \in 1..Len(convState) : convState[i] = "Succeeded"

TypeOK ==
  /\ pc \in {"start", "fetch", "dl_join", "cwebp", "mkdir", "read_dir", "scan", "join", "done"}
  /\ listing \in {"NotCalled", "Err", "None", "Some"}
  /\ \A i \in 1..Len(dlState) : dlState[i] \in {"Pending", "Running", "Succeeded", "Failed"}
  /\ \A i \in 1..Len(convState) :
       convState[i] \in {"Pending", "Acquired", "Running", "Succeeded", "Failed", "Panicked"}
  /\ Len(downloads) = Len(dlState)
  /\ Len(conversion_tasks) = Len(convState)
  /\ permits \in 0..Permits
====
